---- MODULE Spec2Model ----
(***************************************************************************)
(* A model of syslog-loose: the legacy (RFC3164) header parser of          *)
(* src/rfc3164.rs and the Message value of src/message.rs (rendering,      *)
(* equality, conversion to the owning form).                               *)
(*                                                                         *)
(* Text is a sequence of one-character strings.  Every parser takes the    *)
(* remaining input and returns either [kind |-> "Ok", rest, val] or a      *)
(* failure [kind |-> "Error"] / [kind |-> "Incomplete"] (nom's Err::Error  *)
(* and Err::Incomplete); a call that unwinds is [kind |-> "Panic"].        *)
(***************************************************************************)
EXTENDS Integers, Sequences, FiniteSets, TLC

VARIABLES line, m, call

vars == <<line, m, call>>

(***************************************************************************)
(* Bounds of the explored inputs.                                          *)
(***************************************************************************)
MaxTail == 3
MaxDiff == 2

(***************************************************************************)
(* Option values and parser results.                                       *)
(***************************************************************************)
None == [some |-> FALSE]
Some(v) == [some |-> TRUE, val |-> v]

Ok(rest, val) == [kind |-> "Ok", rest |-> rest, val |-> val]
Error == [kind |-> "Error"]
Incomplete == [kind |-> "Incomplete"]
Panic == [kind |-> "Panic"]

\* The values of the variables a specification does not use, and of call
\* before the first call.
NoLine == [pri |-> <<>>, month |-> <<>>, day |-> <<>>, hour |-> <<>>,
           minute |-> <<>>, second |-> <<>>, tail |-> <<>>]
NoMessage == [protocol |-> "none"]
NoCall == [op |-> "none"]

\* Every sequence over S of length at most n.
RECURSIVE SeqsUpTo(_, _)
SeqsUpTo(S, n) ==
  IF n = 0 THEN {<<>>}
  ELSE LET shorter == SeqsUpTo(S, n - 1) IN
       shorter \cup {Append(t, c) : t \in shorter, c \in S}

Drop(s, n) == SubSeq(s, n + 1, Len(s))
Take(s, n) == SubSeq(s, 1, n)

\* Length of the longest prefix of s made of characters of Cs.
SpanLen(s, Cs) ==
  IF \A i \in 1..Len(s) : s[i] \in Cs
  THEN Len(s)
  ELSE (CHOOSE i \in 1..Len(s) : s[i] \notin Cs /\ \A j \in 1..(i - 1) : s[j] \in Cs) - 1

\* Length of the longest prefix of s with no character of Stop.
SpanLenNot(s, Stop) ==
  IF \A i \in 1..Len(s) : s[i] \notin Stop
  THEN Len(s)
  ELSE (CHOOSE i \in 1..Len(s) : s[i] \in Stop /\ \A j \in 1..(i - 1) : s[j] \notin Stop) - 1

DigitChars == <<"0", "1", "2", "3", "4", "5", "6", "7", "8", "9">>
DigitSet == {DigitChars[i] : i \in 1..10}
DigitVal(c) == (CHOOSE i \in 1..10 : DigitChars[i] = c) - 1

RECURSIVE DecVal(_)
DecVal(s) == IF s = <<>> THEN 0 ELSE DecVal(Take(s, Len(s) - 1)) * 10 + DigitVal(s[Len(s)])

RECURSIVE Digits(_)
Digits(n) == IF n < 10 THEN <<DigitChars[n + 1]>> ELSE Digits(n \div 10) \o <<DigitChars[(n % 10) + 1]>>

\* u32::MAX as decimal text; a digit string denotes more than it exactly when,
\* leading zeros aside, it is longer or as long and later in digit order.
U32MaxText == <<"4", "2", "9", "4", "9", "6", "7", "2", "9", "5">>

OverflowsU32(s) ==
  LET t == Drop(s, SpanLen(s, {"0"})) IN
  \/ Len(t) > Len(U32MaxText)
  \/ /\ Len(t) = Len(U32MaxText)
     /\ \E i \in 1..Len(t) :
          /\ DigitVal(t[i]) > DigitVal(U32MaxText[i])
          /\ \A j \in 1..(i - 1) : t[j] = U32MaxText[j]

\* nom::character::complete::space0 / space1: spaces and tabs.
SpaceSet == {" ", "\t"}
\* char::is_whitespace, over the characters of the model.
WhitespaceSet == {" ", "\t", "\n"}

space0(i) == Ok(Drop(i, SpanLen(i, SpaceSet)), <<>>)

space1(i) ==
  IF SpanLen(i, SpaceSet) = 0 THEN Error ELSE Ok(Drop(i, SpanLen(i, SpaceSet)), <<>>)

\* The tag! macro is nom's streaming tag of one character.
tag(c, i) ==
  IF i = <<>> THEN Incomplete
  ELSE IF i[1] = c THEN Ok(Drop(i, 1), <<c>>)
  ELSE Error

\* opt!: a recoverable Error becomes None without consuming; anything else
\* (Incomplete) is passed on.
opt(i, r) ==
  IF r.kind = "Ok" THEN Ok(r.rest, Some(r.val))
  ELSE IF r.kind = "Error" THEN Ok(i, None)
  ELSE r

\* Option<Option<T>>::flatten
flatten(o) == IF o.some THEN o.val ELSE None

\* do_parse!: the parse so far is [kind |-> "Ok", rest, val] with val the
\* sequence of the values bound so far, or the failure that ended it.
Start(i) == Ok(i, <<>>)

\* "name: p >>" runs p on what is left and binds its value.
Bind(st, p(_)) ==
  IF st.kind # "Ok" THEN st
  ELSE LET r == p(st.rest) IN
       IF r.kind # "Ok" THEN r ELSE Ok(r.rest, Append(st.val, r.val))

\* "p >>" runs p on what is left and drops its value.
Skip(st, p(_)) ==
  IF st.kind # "Ok" THEN st
  ELSE LET r == p(st.rest) IN
       IF r.kind # "Ok" THEN r ELSE Ok(r.rest, st.val)

(***************************************************************************)
(* crate::parsers and crate::pri.                                          *)
(***************************************************************************)
u32_digits(i) ==
  LET n == SpanLen(i, DigitSet) IN
  IF n = 0 THEN Error
  ELSE IF OverflowsU32(Take(i, n)) THEN Error
  ELSE Ok(Drop(i, n), DecVal(Take(i, n)))

\* A token up to whitespace or a colon; "-" and the empty token are absent.
optional(i) ==
  LET n == SpanLenNot(i, WhitespaceSet \cup {":"})
      v == Take(i, n) IN
  Ok(Drop(i, n), IF v = <<>> \/ v = <<"-">> THEN None ELSE Some(v))

hostname(i) == optional(i)
appname(i) == optional(i)

MaxPri == 191

compose_pri(facility, severity) == facility * 8 + severity

decompose_pri(p) == <<Some(p \div 8), Some(p % 8)>>

pri(i) ==
  IF i = <<>> \/ i[1] # "<" THEN Error
  ELSE LET d == u32_digits(Drop(i, 1)) IN
       IF d.kind # "Ok" THEN d
       ELSE IF d.rest = <<>> \/ d.rest[1] # ">" THEN Error
       ELSE IF d.val > MaxPri THEN Error
       ELSE Ok(Drop(d.rest, 1), decompose_pri(d.val))

(***************************************************************************)
(* src/rfc3164.rs                                                          *)
(***************************************************************************)
MonthNames ==
  << <<"J","a","n">>, <<"F","e","b">>, <<"M","a","r">>, <<"A","p","r">>,
     <<"M","a","y">>, <<"J","u","n">>, <<"J","u","l">>, <<"A","u","g">>,
     <<"S","e","p">>, <<"O","c","t">>, <<"N","o","v">>, <<"D","e","c">> >>

\* parse_month numbering the months from zero.
parse_month_FromZero(s) ==
  IF \E k \in 1..12 : MonthNames[k] = s
  THEN (CHOOSE k \in 1..12 : MonthNames[k] = s) - 1
  ELSE 0

\* Ok(n) or Err: 0 stands for the Err.
parse_month(s) ==
  IF \E k \in 1..12 : MonthNames[k] = s
  THEN CHOOSE k \in 1..12 : MonthNames[k] = s
  ELSE 0

\* map_res!(take!(3), parse_month): take! is nom's streaming take.
month(i) ==
  IF Len(i) < 3 THEN Incomplete
  ELSE IF parse_month(Take(i, 3)) = 0 THEN Error
  ELSE Ok(Drop(i, 3), parse_month(Take(i, 3)))

colon(i) == tag(":", i)

\* <<month, date, hour, minute, seconds>>
timestamp(i) ==
  Bind(Skip(Bind(Skip(Bind(Skip(Bind(Skip(Bind(Start(i),
    month), space1), u32_digits), space1), u32_digits), colon), u32_digits),
    colon), u32_digits)

\* chrono: the calendar.
IsLeap(y) == (y % 4 = 0 /\ y % 100 # 0) \/ y % 400 = 0

DaysInMonth(y, mon) ==
  IF mon = 2 THEN (IF IsLeap(y) THEN 29 ELSE 28)
  ELSE IF mon \in {4, 6, 9, 11} THEN 30
  ELSE 31

\* TimeZone::ymd and Date::and_hms panic on a date or time that does not exist.
ValidYmd(y, mon, d) == mon \in 1..12 /\ d >= 1 /\ d <= DaysInMonth(y, mon)
ValidHms(h, min, s) == h < 24 /\ min < 60 /\ s < 60

DateTime(y, mon, d, h, min, s) ==
  [year |-> y, month |-> mon, day |-> d, hour |-> h, minute |-> min, second |-> s]

\* The DateTime at offset zero, or Panic.
make_timestamp(t, year) ==
  IF ValidYmd(year, t[1], t[2]) /\ ValidHms(t[3], t[4], t[5])
  THEN DateTime(year, t[1], t[2], t[3], t[4], t[5])
  ELSE Panic

\* preceded!(space0, timestamp)
spaced_timestamp(i) == timestamp(space0(i).rest)

\* preceded!(space1, hostname) and preceded!(space1, appname)
spaced_hostname(i) == IF space1(i).kind = "Ok" THEN hostname(space1(i).rest) ELSE space1(i)
spaced_appname(i) == IF space1(i).kind = "Ok" THEN appname(space1(i).rest) ELSE space1(i)

opt_hostname(i) == opt(i, spaced_hostname(i))
opt_appname(i) == opt(i, spaced_appname(i))
opt_colon(i) == opt(i, colon(i))
opt_space0(i) == opt(i, space0(i))

\* The fields of the header the do_parse! of header has bound:
\* <<pri, timestamp, hostname, appname>>.
header_fields(input) ==
  Skip(Skip(Bind(Bind(Bind(Bind(Start(input),
    pri), spaced_timestamp), opt_hostname), opt_appname), opt_colon), opt_space0)

\* The Header of the bound fields f, or Panic.
make_header(f, year) ==
  IF make_timestamp(f[2], year) = Panic THEN Panic
  ELSE [facility |-> f[1][1],
        severity |-> f[1][2],
        timestamp |-> Some(make_timestamp(f[2], year)),
        hostname |-> flatten(f[3]),
        version |-> None,
        appname |-> flatten(f[4]),
        procid |-> None,
        msgid |-> None]

\* header(input, get_year) with get_year returning year.
header_result(st, year) ==
  IF st.kind # "Ok" THEN st
  ELSE IF make_header(st.val, year) = Panic THEN Panic
  ELSE Ok(st.rest, make_header(st.val, year))

header(input, year) == header_result(header_fields(input), year)

(***************************************************************************)
(* src/message.rs                                                          *)
(*                                                                         *)
(* A Message is a record of its ten fields.  Protocol is RFC3164 or        *)
(* RFC5424(version); a facility is its number 0..23, a severity 0..7; a    *)
(* StructuredElement is [id, params] with params a sequence of             *)
(* <<name, value>> pairs.                                                  *)
(***************************************************************************)
RFC3164 == [tag |-> "RFC3164"]
RFC5424(version) == [tag |-> "RFC5424", version |-> version]

LOG_SYSLOG == 5
SEV_DEBUG == 7

unwrap_or(o, d) == IF o.some THEN o.val ELSE d

Pad(n, width) ==
  LET d == Digits(n) IN
  [j \in 1..(IF Len(d) < width THEN width - Len(d) ELSE 0) |-> "0"] \o d

\* chrono's DateTime::to_rfc3339 of a DateTime at offset zero.
to_rfc3339(t) ==
  Pad(t.year, 4) \o <<"-">> \o Pad(t.month, 2) \o <<"-">> \o Pad(t.day, 2)
    \o <<"T">> \o Pad(t.hour, 2) \o <<":">> \o Pad(t.minute, 2) \o <<":">>
    \o Pad(t.second, 2) \o <<"+", "0", "0", ":", "0", "0">>

\* Display of a parameter value: '"', '\' and ']' are written after a '\'.
RECURSIVE Escape(_)
Escape(v) ==
  IF v = <<>> THEN <<>>
  ELSE (IF v[1] \in {"\"", "\\", "]"} THEN <<"\\", v[1]>> ELSE <<v[1]>>)
         \o Escape(Drop(v, 1))

RECURSIVE RenderParams(_)
RenderParams(ps) ==
  IF ps = <<>> THEN <<>>
  ELSE <<" ">> \o ps[1][1] \o <<"=", "\"">> \o Escape(ps[1][2]) \o <<"\"">>
         \o RenderParams(Drop(ps, 1))

\* Display of a StructuredElement.
RenderElement(e) == <<"[">> \o e.id \o RenderParams(e.params) \o <<"]">>

RECURSIVE RenderElements(_)
RenderElements(es) ==
  IF es = <<>> THEN <<>> ELSE RenderElement(es[1]) \o RenderElements(Drop(es, 1))

\* The first write! of Display for Message: its format string
\* "<{}>{} {} {} {} {} {} " applied to seven arguments.
write_header(p, version, ts, host, app, proc, mid) ==
  <<"<">> \o p \o <<">">> \o version \o <<" ">> \o ts \o <<" ">> \o host
    \o <<" ">> \o app \o <<" ">> \o proc \o <<" ">> \o mid \o <<" ">>

\* Display for a Protocol's version: nothing for RFC3164.
version_text(protocol) ==
  IF protocol.tag = "RFC3164" THEN <<>> ELSE Digits(protocol.version)

\* The structured-data part of Display for Message.
write_data(self) ==
  IF Len(self.structured_data) = 0
  THEN (IF self.protocol.tag = "RFC5424" THEN <<"-">> ELSE <<>>)
  ELSE RenderElements(self.structured_data)

\* fmt with procid and msgid written in each other's place.
fmt_SwappedIds(self, now) ==
  write_header(Digits(compose_pri(unwrap_or(self.facility, LOG_SYSLOG),
                                  unwrap_or(self.severity, SEV_DEBUG))),
               version_text(self.protocol),
               to_rfc3339(unwrap_or(self.timestamp, now)),
               unwrap_or(self.hostname, <<"-">>),
               unwrap_or(self.appname, <<"-">>),
               unwrap_or(self.msgid, <<"-">>),
               unwrap_or(self.procid, <<"-">>))
    \o write_data(self) \o <<" ">> \o self.msg

\* fmt writing "-" for no elements whatever the protocol.
fmt_AlwaysDash(self, now) ==
  write_header(Digits(compose_pri(unwrap_or(self.facility, LOG_SYSLOG),
                                  unwrap_or(self.severity, SEV_DEBUG))),
               version_text(self.protocol),
               to_rfc3339(unwrap_or(self.timestamp, now)),
               unwrap_or(self.hostname, <<"-">>),
               unwrap_or(self.appname, <<"-">>),
               unwrap_or(self.procid, <<"-">>),
               unwrap_or(self.msgid, <<"-">>))
    \o (IF Len(self.structured_data) = 0 THEN <<"-">>
        ELSE RenderElements(self.structured_data))
    \o <<" ">> \o self.msg

\* fmt with facility 1 in place of an absent facility.
fmt_DefaultUser(self, now) ==
  write_header(Digits(compose_pri(unwrap_or(self.facility, 1),
                                  unwrap_or(self.severity, SEV_DEBUG))),
               version_text(self.protocol),
               to_rfc3339(unwrap_or(self.timestamp, now)),
               unwrap_or(self.hostname, <<"-">>),
               unwrap_or(self.appname, <<"-">>),
               unwrap_or(self.procid, <<"-">>),
               unwrap_or(self.msgid, <<"-">>))
    \o write_data(self) \o <<" ">> \o self.msg

\* fmt writing the current time whether or not a timestamp is present.
fmt_AlwaysNow(self, now) ==
  write_header(Digits(compose_pri(unwrap_or(self.facility, LOG_SYSLOG),
                                  unwrap_or(self.severity, SEV_DEBUG))),
               version_text(self.protocol),
               to_rfc3339(now),
               unwrap_or(self.hostname, <<"-">>),
               unwrap_or(self.appname, <<"-">>),
               unwrap_or(self.procid, <<"-">>),
               unwrap_or(self.msgid, <<"-">>))
    \o write_data(self) \o <<" ">> \o self.msg

\* Display for Message; now is what Utc::now() returns during the call.
fmt(self, now) ==
  LET empty == <<"-">> IN
  write_header(Digits(compose_pri(unwrap_or(self.facility, LOG_SYSLOG),
                                  unwrap_or(self.severity, SEV_DEBUG))),
               version_text(self.protocol),
               to_rfc3339(unwrap_or(self.timestamp, now)),
               unwrap_or(self.hostname, empty),
               unwrap_or(self.appname, empty),
               unwrap_or(self.procid, empty),
               unwrap_or(self.msgid, empty))
    \o write_data(self)
    \o <<" ">> \o self.msg

\* eq comparing the protocol as well.
eq_ComparesProtocol(self, other) == self = other

\* PartialEq for Message.
eq(self, other) ==
  /\ self.facility = other.facility
  /\ self.severity = other.severity
  /\ self.timestamp = other.timestamp
  /\ self.hostname = other.hostname
  /\ self.appname = other.appname
  /\ self.procid = other.procid
  /\ self.msgid = other.msgid
  /\ self.structured_data = other.structured_data
  /\ self.msg = other.msg

\* str::to_string: a fresh text with the same characters.
to_string(t) == [j \in 1..Len(t) |-> t[j]]

map_to_string(o) == IF o.some THEN Some(to_string(o.val)) ELSE None

\* StructuredElement<&str> into StructuredElement<String>.
ElementInto(e) ==
  [id |-> to_string(e.id),
   params |-> [j \in 1..Len(e.params) |->
                 <<to_string(e.params[j][1]), to_string(e.params[j][2])>>]]

\* From leaving the structured data behind.
From_DropsData(message) == [message EXCEPT !.structured_data = <<>>]

\* From<Message<&str>> for Message<String>.
From(message) ==
  [facility |-> message.facility,
   severity |-> message.severity,
   timestamp |-> message.timestamp,
   hostname |-> map_to_string(message.hostname),
   appname |-> map_to_string(message.appname),
   procid |-> map_to_string(message.procid),
   msgid |-> map_to_string(message.msgid),
   protocol |-> message.protocol,
   structured_data |-> [j \in 1..Len(message.structured_data) |->
                          ElementInto(message.structured_data[j])],
   msg |-> to_string(message.msg)]

(***************************************************************************)
(* The structured-format (RFC5424) parse: priority, version, timestamp or  *)
(* "-", four fields each a token or "-", structured data or "-", then a    *)
(* single space and the body.  Timestamps are whole seconds at offset      *)
(* zero, as to_rfc3339 writes them.                                        *)
(***************************************************************************)
sp(i) == IF i # <<>> /\ i[1] = " " THEN Ok(Drop(i, 1), <<>>) ELSE Error

\* A header field: a token up to whitespace; "-" is the absent field.
field(i) ==
  LET n == SpanLenNot(i, WhitespaceSet)
      v == Take(i, n) IN
  IF n = 0 THEN Error
  ELSE Ok(Drop(i, n), IF v = <<"-">> THEN None ELSE Some(v))

AllDigits(t) == \A j \in 1..Len(t) : t[j] \in DigitSet

timestamp_3339(i) ==
  IF i # <<>> /\ i[1] = "-" THEN Ok(Drop(i, 1), None)
  ELSE IF Len(i) < 25 THEN Error
  ELSE IF ~ /\ AllDigits(SubSeq(i, 1, 4)) /\ i[5] = "-"
            /\ AllDigits(SubSeq(i, 6, 7)) /\ i[8] = "-"
            /\ AllDigits(SubSeq(i, 9, 10)) /\ i[11] = "T"
            /\ AllDigits(SubSeq(i, 12, 13)) /\ i[14] = ":"
            /\ AllDigits(SubSeq(i, 15, 16)) /\ i[17] = ":"
            /\ AllDigits(SubSeq(i, 18, 19))
            /\ SubSeq(i, 20, 25) = <<"+", "0", "0", ":", "0", "0">>
       THEN Error
  ELSE LET y == DecVal(SubSeq(i, 1, 4))
           mon == DecVal(SubSeq(i, 6, 7))
           d == DecVal(SubSeq(i, 9, 10))
           h == DecVal(SubSeq(i, 12, 13))
           min == DecVal(SubSeq(i, 15, 16))
           s == DecVal(SubSeq(i, 18, 19)) IN
       IF ValidYmd(y, mon, d) /\ ValidHms(h, min, s)
       THEN Ok(Drop(i, 25), Some(DateTime(y, mon, d, h, min, s)))
       ELSE Error

\* Characters an element identifier or a parameter name may not contain.
NameStop == {" ", "=", "]", "\""}

\* Length of the escaped value text up to its closing quote, -1 if there is
\* no closing quote.
RECURSIVE RawValueLen(_)
RawValueLen(i) ==
  IF i = <<>> THEN -1
  ELSE IF i[1] = "\"" THEN 0
  ELSE LET k == IF i[1] = "\\" /\ Len(i) >= 2 /\ i[2] \in {"\"", "\\", "]"} THEN 2 ELSE 1
           r == RawValueLen(Drop(i, k)) IN
       IF r < 0 THEN -1 ELSE r + k

RECURSIVE Unescape(_)
Unescape(v) ==
  IF v = <<>> THEN <<>>
  ELSE IF v[1] = "\\" /\ Len(v) >= 2 /\ v[2] \in {"\"", "\\", "]"}
       THEN <<v[2]>> \o Unescape(Drop(v, 2))
       ELSE <<v[1]>> \o Unescape(Drop(v, 1))

\* Zero or more ' name="value"' up to the closing bracket.
RECURSIVE parse_params(_)
parse_params(i) ==
  IF i = <<>> THEN Error
  ELSE IF i[1] = "]" THEN Ok(i, <<>>)
  ELSE IF i[1] # " " THEN Error
  ELSE LET n == SpanLenNot(Drop(i, 1), NameStop)
           after == Drop(i, 1 + n) IN
       IF n = 0 \/ Len(after) < 2 \/ after[1] # "=" \/ after[2] # "\"" THEN Error
       ELSE LET raw == RawValueLen(Drop(after, 2)) IN
            IF raw < 0 THEN Error
            ELSE LET more == parse_params(Drop(after, 2 + raw + 1)) IN
                 IF more.kind # "Ok" THEN more
                 ELSE Ok(more.rest,
                         << <<SubSeq(i, 2, 1 + n),
                              Unescape(SubSeq(after, 3, 2 + raw))>> >> \o more.val)

structured_datum(i) ==
  IF i = <<>> \/ i[1] # "[" THEN Error
  ELSE LET n == SpanLenNot(Drop(i, 1), NameStop) IN
       IF n = 0 THEN Error
       ELSE LET ps == parse_params(Drop(i, 1 + n)) IN
            IF ps.kind # "Ok" THEN ps
            ELSE Ok(Drop(ps.rest, 1), [id |-> SubSeq(i, 2, 1 + n), params |-> ps.val])

RECURSIVE structured_data(_)
structured_data(i) ==
  IF i # <<>> /\ i[1] = "-" THEN Ok(Drop(i, 1), <<>>)
  ELSE LET e == structured_datum(i) IN
       IF e.kind # "Ok" THEN e
       ELSE IF e.rest # <<>> /\ e.rest[1] = "["
            THEN LET more == structured_data(e.rest) IN
                 IF more.kind # "Ok" THEN more ELSE Ok(more.rest, <<e.val>> \o more.val)
            ELSE Ok(e.rest, <<e.val>>)

\* The body: nothing, or a single space and the rest of the line.
body(i) == IF i = <<>> THEN Ok(<<>>, <<>>) ELSE IF i[1] = " " THEN Ok(<<>>, Drop(i, 1)) ELSE Error

\* <<pri, version, timestamp, hostname, appname, procid, msgid, data, body>>
fields_5424(i) ==
  Bind(Bind(Skip(Bind(Skip(Bind(Skip(Bind(Skip(Bind(Skip(Bind(Skip(Bind(Bind(Start(i),
    pri), u32_digits), sp), timestamp_3339), sp), field), sp), field), sp),
    field), sp), field), sp), structured_data), body)

message_5424(st) ==
  IF st.kind # "Ok" THEN Error
  ELSE Ok(st.rest,
          [protocol |-> RFC5424(st.val[2]),
           facility |-> st.val[1][1],
           severity |-> st.val[1][2],
           timestamp |-> st.val[3],
           hostname |-> st.val[4],
           appname |-> st.val[5],
           procid |-> st.val[6],
           msgid |-> st.val[7],
           structured_data |-> st.val[8],
           msg |-> st.val[9]])

parse_5424(i) == message_5424(fields_5424(i))

(***************************************************************************)
(* Message operations applied to bounded Message values.                   *)
(***************************************************************************)
MaxElems == 2

E1 == [id |-> <<"x">>, params |-> << << <<"k">>, <<"v", "]", "\\", "\"">> >> >>]
E2 == [id |-> <<"y">>, params |-> <<>>]
Elements == {E1, E2}

T1 == DateTime(2019, 10, 11, 22, 14, 15)

\* What Utc::now() may return during a render call.
Clock == {DateTime(2026, 1, 2, 3, 4, 5), DateTime(2026, 1, 2, 3, 4, 6)}

\* The values each field of a Message is drawn from.
FieldDomain ==
  [protocol |-> {RFC3164, RFC5424(1), RFC5424(2)},
   facility |-> {None, Some(4)},
   severity |-> {None, Some(2)},
   timestamp |-> {None, Some(T1)},
   hostname |-> {None, Some(<<"a">>), Some(<<"-">>)},
   appname |-> {None, Some(<<"s", "u">>)},
   procid |-> {None, Some(<<"1">>)},
   msgid |-> {None, Some(<<"i">>)},
   structured_data |-> SeqsUpTo(Elements, MaxElems),
   msg |-> {<<>>, <<"a", " ", "m">>}]

Messages ==
  [protocol : FieldDomain.protocol,
   facility : FieldDomain.facility,
   severity : FieldDomain.severity,
   timestamp : FieldDomain.timestamp,
   hostname : FieldDomain.hostname,
   appname : FieldDomain.appname,
   procid : FieldDomain.procid,
   msgid : FieldDomain.msgid,
   structured_data : FieldDomain.structured_data,
   msg : FieldDomain.msg]

InitMessage ==
  /\ line = NoLine
  /\ m \in Messages
  /\ call = NoCall

\* format!("{}", m): Utc::now() is read once during the call.
Render ==
  /\ m # NoMessage
  /\ \E now \in Clock :
       call' = [op |-> "render", text |-> fmt(m, now),
                repeated |-> call.op = "render"]
  /\ UNCHANGED <<line, m>>

\* The rendered line is parsed back as a structured-format message.
ParseRendered ==
  /\ call.op = "render"
  /\ call' = [op |-> "parse", text |-> call.text, res |-> parse_5424(call.text)]
  /\ UNCHANGED <<line, m>>

\* Message::<String>::from(m)
Convert ==
  /\ m # NoMessage
  /\ call' = [op |-> "from", res |-> From(m)]
  /\ UNCHANGED <<line, m>>

NextMessage == Render \/ ParseRendered \/ Convert

SpecMessage == InitMessage /\ [][NextMessage]_vars

\* One field of a Message replaced by a value of that field's domain.
FieldValues ==
  UNION {{<<f, v>> : v \in FieldDomain[f]} : f \in DOMAIN FieldDomain}

Replaced(x) == {[x EXCEPT ![fv[1]] = fv[2]] : fv \in FieldValues}

\* The Messages that differ from x in at most k fields.
RECURSIVE Near(_, _)
Near(x, k) == IF k = 0 THEN {x} ELSE UNION {Replaced(y) : y \in Near(x, k - 1)}

\* m == other, once in a behaviour.
Compare ==
  /\ m # NoMessage
  /\ call = NoCall
  /\ \E other \in Near(m, MaxDiff) :
       call' = [op |-> "eq", other |-> other, res |-> eq(m, other)]
  /\ UNCHANGED <<line, m>>

NextEq == Compare

SpecEq == InitMessage /\ [][NextEq]_vars

(***************************************************************************)
(* Properties of rendering, parsing back and conversion (SpecMessage).     *)
(***************************************************************************)
Rendered == call.op = "render"

EndsWith(t, suffix) ==
  Len(suffix) <= Len(t) /\ Drop(t, Len(t) - Len(suffix)) = suffix

\* What the structured format can carry: a field is a non-empty token that
\* is not the "-" marker; identifiers and parameter names are non-empty and
\* free of space, '=', ']' and '"'.
IsToken(t) ==
  t # <<>> /\ t # <<"-">> /\ \A j \in 1..Len(t) : t[j] \notin WhitespaceSet
ValidField(o) == o.some => IsToken(o.val)
ValidName(t) == t # <<>> /\ \A j \in 1..Len(t) : t[j] \notin NameStop
ValidElement(e) ==
  ValidName(e.id) /\ \A j \in 1..Len(e.params) : ValidName(e.params[j][1])
ValidMessage(x) ==
  /\ x.facility.some => x.facility.val \in 0..23
  /\ x.severity.some => x.severity.val \in 0..7
  /\ ValidField(x.hostname) /\ ValidField(x.appname)
  /\ ValidField(x.procid) /\ ValidField(x.msgid)
  /\ \A j \in 1..Len(x.structured_data) : ValidElement(x.structured_data[j])

RoundTripCase ==
  /\ call.op = "parse"
  /\ m.protocol.tag = "RFC5424"
  /\ m.facility.some /\ m.severity.some /\ m.timestamp.some
  /\ ValidMessage(m)

\* C1: the rendering of a valid structured-format Message with facility,
\* severity and timestamp present parses back, as a structured-format
\* message, to a Message equal to it.
C1_RoundTrip ==
  RoundTripCase => (call.res.kind = "Ok" /\ eq(call.res.val, m))

C1_Witness ==
  /\ RoundTripCase
  /\ m.structured_data = <<E1, E2>>
  /\ m.hostname = None
  /\ m.appname # None
  /\ call.res.kind = "Ok"
  /\ call.res.val.structured_data = <<E1, E2>>
  /\ call.res.val.msg = <<"a", " ", "m">>

\* What stands between the space after msgid and the space before the body.
DataPosition(x) ==
  IF Len(x.structured_data) = 0
  THEN (IF x.protocol.tag = "RFC5424" THEN <<"-">> ELSE <<>>)
  ELSE RenderElements(x.structured_data)

\* C3: the rendered line ends with msgid or "-", a space, the structured-data
\* position, a space and the body; the position holds "-" for no elements
\* under RFC5424, nothing for no elements under RFC3164, and otherwise the
\* elements in order with no separator and no "-".
C3_DataPosition ==
  Rendered =>
    EndsWith(call.text,
             <<" ">> \o unwrap_or(m.msgid, <<"-">>) \o <<" ">> \o DataPosition(m)
               \o <<" ">> \o m.msg)

C3_Witness ==
  /\ Rendered
  /\ m.protocol = RFC5424(1)
  /\ m.structured_data = <<>>
  /\ m.msgid = Some(<<"i">>)
  /\ EndsWith(call.text, <<" ", "i", " ", "-", " ", "a", " ", "m">>)

\* The number between "<" and ">" at the start of a rendered line.
HasPri(t, n) ==
  LET k == SpanLen(Drop(t, 1), DigitSet) IN
  /\ Len(t) >= k + 2 /\ k > 0
  /\ t[1] = "<" /\ t[k + 2] = ">"
  /\ SubSeq(t, 2, k + 1) = Digits(n)

\* C7: rendering a Message with no facility and/or no severity writes the
\* priority of LOG_SYSLOG and/or SEV_DEBUG in their place and leaves the
\* Message as it was: the absent fields are still absent.
C7_DefaultsStayLocal ==
  [][(call'.op = "render" /\ (~m.facility.some \/ ~m.severity.some)) =>
       /\ m' = m
       /\ HasPri(call'.text,
                 (IF m.facility.some THEN m.facility.val ELSE LOG_SYSLOG) * 8
                   + (IF m.severity.some THEN m.severity.val ELSE SEV_DEBUG))]_vars

C7_Witness ==
  /\ Rendered
  /\ m.facility = None
  /\ m.severity = None
  /\ Take(call.text, 4) = <<"<", "4", "7", ">">>

\* C8: the owning form has the same protocol, facility, severity and
\* timestamp, the same fields present with the same text, as many
\* structured-data elements, the same ones in the same order, and the same
\* body.
SameText(o, b) == o.some = b.some /\ (b.some => o.val = b.val)

C8_ConversionLossless ==
  call.op = "from" =>
    /\ call.res.protocol = m.protocol
    /\ call.res.facility = m.facility
    /\ call.res.severity = m.severity
    /\ call.res.timestamp = m.timestamp
    /\ SameText(call.res.hostname, m.hostname)
    /\ SameText(call.res.appname, m.appname)
    /\ SameText(call.res.procid, m.procid)
    /\ SameText(call.res.msgid, m.msgid)
    /\ Len(call.res.structured_data) = Len(m.structured_data)
    /\ \A j \in 1..Len(m.structured_data) :
         call.res.structured_data[j] = m.structured_data[j]
    /\ call.res.msg = m.msg

C8_Witness ==
  /\ call.op = "from"
  /\ m.structured_data = <<E1, E2>>
  /\ m.hostname = Some(<<"a">>)
  /\ m.procid = None
  /\ call.res.structured_data = <<E1, E2>>
  /\ call.res.hostname = Some(<<"a">>)
  /\ call.res.procid = None
  /\ call.res.msg = m.msg

\* C9: two render calls on the same Message write the same text.
C9_RenderDeterministic ==
  [][(call.op = "render" /\ call'.op = "render") => call'.text = call.text]_vars

\* C9, amended: two render calls on a Message whose timestamp is present
\* write the same text.
C9_RenderDeterministicWithTimestamp ==
  [][(call.op = "render" /\ call'.op = "render" /\ m.timestamp.some)
       => call'.text = call.text]_vars

C9_Witness ==
  /\ Rendered
  /\ call.repeated
  /\ m.timestamp = Some(T1)

(***************************************************************************)
(* Properties of equality (SpecEq).                                        *)
(***************************************************************************)
ComparedFields ==
  {"facility", "severity", "timestamp", "hostname", "appname", "procid",
   "msgid", "structured_data", "msg"}

\* C2: a == b exactly when the nine fields other than protocol are pairwise
\* equal, structured_data as an ordered sequence; a difference in protocol
\* alone leaves the two equal.
C2_EqualityIgnoresProtocolOnly ==
  call.op = "eq" =>
    /\ call.res = (\A f \in ComparedFields : m[f] = call.other[f])
    /\ (\A f \in DOMAIN m \ {"protocol"} : m[f] = call.other[f]) => call.res
    /\ (\E f \in DOMAIN m \ {"protocol"} : m[f] # call.other[f]) => ~call.res

C2_Witness ==
  /\ call.op = "eq"
  /\ m.protocol = RFC3164
  /\ call.other.protocol = RFC5424(2)
  /\ m.structured_data = <<E1, E2>>
  /\ call.res = TRUE

C2_WitnessOrder ==
  /\ call.op = "eq"
  /\ m.structured_data = <<E1, E2>>
  /\ call.other.structured_data = <<E2, E1>>
  /\ call.res = FALSE

(***************************************************************************)
(* The legacy header parse applied to bounded input lines.                 *)
(*                                                                         *)
(* A line is "<" pri ">" month " " day " " hour ":" minute ":" second      *)
(* followed by a tail; each fragment is drawn from a small set of texts    *)
(* and the tail from every text of at most MaxTail characters over         *)
(* TailAlphabet, plus the tails of the lines of the source's tests.        *)
(***************************************************************************)
TailAlphabet == {"a", "-", " ", ":"}

AMessage == <<"a", " ", "m", "e", "s", "s", "a", "g", "e">>
MyMachine == <<"m", "y", "m", "a", "c", "h", "i", "n", "e">>

ExampleTails ==
  { <<":", " ">> \o AMessage,
    <<" ">> \o MyMachine \o <<":", " ">> \o AMessage,
    <<" ">> \o AMessage,
    <<" ">> \o MyMachine \o <<" ", "s", "u", ":", " ">> \o AMessage }

Tails == SeqsUpTo(TailAlphabet, MaxTail) \cup ExampleTails

Lines ==
  [pri : {<<"3", "4">>, <<"1", "9", "2">>, <<>>},
   month : {<<"O", "c", "t">>, <<"F", "e", "b">>, <<"O", "k", "t">>},
   day : {<<"1", "1">>, <<"2", "9">>, <<"3", "0">>, <<"3", "2">>},
   hour : {<<"2", "2">>, <<"2", "5">>},
   minute : {<<"1", "4">>, <<"6", "1">>},
   second : {<<"1", "5">>, <<"6", "0">>},
   tail : Tails]

Years == {2019, 2020}

Text(l) ==
  <<"<">> \o l.pri \o <<">">> \o l.month \o <<" ">> \o l.day \o <<" ">>
    \o l.hour \o <<":">> \o l.minute \o <<":">> \o l.second \o l.tail


InitHeader ==
  /\ line \in Lines
  /\ m = NoMessage
  /\ call = NoCall

\* header(input, get_year) with get_year returning y, once in a behaviour.
ParseHeader ==
  /\ line # NoLine
  /\ call = NoCall
  /\ \E y \in Years :
       call' = [op |-> "header", input |-> Text(line), year |-> y,
                res |-> header(Text(line), y)]
  /\ UNCHANGED <<line, m>>

NextHeader == ParseHeader

SpecHeader == InitHeader /\ [][NextHeader]_vars

(***************************************************************************)
(* Properties of the legacy header parse (SpecHeader).                     *)
(***************************************************************************)
HeaderCalled == call.op = "header"

\* What the fragments of the line denote.
PriValue == DecVal(line.pri)
PriInRange == line.pri # <<>> /\ PriValue <= MaxPri
MonthKnown == \E k \in 1..12 : MonthNames[k] = line.month
\* January is 1.
MonthNumber == CHOOSE k \in 1..12 : MonthNames[k] = line.month
LineDate ==
  <<MonthNumber, DecVal(line.day), DecVal(line.hour),
    DecVal(line.minute), DecVal(line.second)>>
RealDate(y) ==
  /\ MonthKnown
  /\ ValidYmd(y, LineDate[1], LineDate[2])
  /\ ValidHms(LineDate[3], LineDate[4], LineDate[5])

\* A colon-terminated tail: an optional " " and hostname token of letters,
\* then ":", then spaces or tabs, then the body.
Letters == {"a", "c", "e", "g", "h", "i", "m", "n", "s", "y"}
HostLen(t) == IF t # <<>> /\ t[1] = " " THEN SpanLen(Drop(t, 1), Letters) ELSE 0
ColonAt(t) == IF HostLen(t) > 0 THEN HostLen(t) + 2 ELSE 1
ColonTerminated(t) == Len(t) >= ColonAt(t) /\ t[ColonAt(t)] = ":"
HostOf(t) == IF HostLen(t) > 0 THEN Some(SubSeq(t, 2, HostLen(t) + 1)) ELSE None
BodyOf(t) ==
  LET after == Drop(t, ColonAt(t)) IN Drop(after, SpanLen(after, SpaceSet))

\* C4: a colon-terminated legacy header with a priority in range and a real
\* date parses to facility PRI / 8, severity PRI % 8, the date in the year
\* the strategy returned, the hostname token if there is one, no appname,
\* version, procid or msgid, and leaves exactly the body.
C4_ColonTerminatedHeader ==
  (HeaderCalled /\ PriInRange /\ RealDate(call.year) /\ ColonTerminated(line.tail))
    => call.res =
         Ok(BodyOf(line.tail),
            [facility |-> Some(PriValue \div 8),
             severity |-> Some(PriValue % 8),
             timestamp |-> Some(DateTime(call.year, LineDate[1], LineDate[2],
                                         LineDate[3], LineDate[4], LineDate[5])),
             hostname |-> HostOf(line.tail),
             version |-> None,
             appname |-> None,
             procid |-> None,
             msgid |-> None])

C4_Witness ==
  /\ HeaderCalled
  /\ call.year = 2019
  /\ line.tail = <<" ">> \o MyMachine \o <<":", " ">> \o AMessage
  /\ call.res.kind = "Ok"
  /\ call.res.rest = AMessage
  /\ call.res.val.hostname = Some(MyMachine)
  /\ call.res.val.facility = Some(4)
  /\ call.res.val.severity = Some(2)
  /\ call.res.val.timestamp = Some(DateTime(2019, 10, 11, 22, 14, 15))

\* C5: the header parse always returns, a success or a typed parse failure,
\* also for timestamps that are well formed but name no real date or time.
C5_HeaderTotal ==
  HeaderCalled => call.res.kind \in {"Ok", "Error", "Incomplete"}

\* C6: once the priority and the timestamp have parsed to a real date, the
\* header parse succeeds whatever follows the seconds, nothing included.
C6_MissingFieldsNeverFail ==
  (HeaderCalled /\ PriInRange /\ RealDate(call.year)) => call.res.kind = "Ok"

\* C10: on success the remaining text is the input from the end of what was
\* consumed, the hostname and appname tokens lie wholly inside the consumed
\* part, and a line with two tokens and no colon ("... a message") returns
\* the first as hostname and the second as appname.
TokenConsumed(o) ==
  o.some =>
    \E i \in 1..(Len(call.input) - Len(call.res.rest)) :
      /\ i + Len(o.val) - 1 <= Len(call.input) - Len(call.res.rest)
      /\ SubSeq(call.input, i, i + Len(o.val) - 1) = o.val

C10_ConsumedTokensStayConsumed ==
  /\ (HeaderCalled /\ call.res.kind = "Ok") =>
       /\ Len(call.res.rest) <= Len(call.input)
       /\ call.res.rest = Drop(call.input, Len(call.input) - Len(call.res.rest))
       /\ TokenConsumed(call.res.val.hostname)
       /\ TokenConsumed(call.res.val.appname)
  /\ (HeaderCalled /\ PriInRange /\ RealDate(call.year) /\ line.tail = <<" ">> \o AMessage) =>
       /\ call.res.kind = "Ok"
       /\ call.res.val.hostname = Some(<<"a">>)
       /\ call.res.val.appname = Some(<<"m", "e", "s", "s", "a", "g", "e">>)
       /\ call.res.rest = <<>>

====
